---- MODULE Spec2Model ----
(***************************************************************************)
(* Model of the concurrent domain check of src/DomainCheckApi.py:          *)
(* check_domain drives three fan-out/fan-in stages (DNS, TCP, TLS + HTTP)  *)
(* over a thread pool and folds the probe results into one report.         *)
(*                                                                         *)
(* One action models one segment of check_domain between two awaits (the   *)
(* event loop runs such a segment without interruption), and one action    *)
(* models the return of one probe call on a pool thread.  A probe is       *)
(* "none" (not issued), "inflight" (submitted to the executor by           *)
(* asyncio.gather) or "done" (its future holds the result).  A stage of    *)
(* the model issues at most 2 * MaxAddr probes, fewer than the pool's      *)
(* 20 workers, so a submitted probe is never queued behind another.        *)
(*                                                                         *)
(* Values: an address is a number of 1 .. MaxAddr; line 0 of a dig output  *)
(* is a blank line.  Python's True / "TLS-Reset" / False of tls_handshake  *)
(* are the strings TLS_TRUE / TLS_RESET / TLS_FALSE; the Chinese message   *)
(* strings are written in English.  time.time() is not modelled: the       *)
(* elapsed_time entry only records that the key was written.               *)
(***************************************************************************)
EXTENDS Integers, Sequences, FiniteSets, TLC

\* ---- bounds of the model ----
MaxAddr == 2
MaxLines == 2
MaxCalls == 3
MaxDomainLen == 3
MaxPoolAddrs == 11

\* ---- configuration (DomainCheckApi.py lines 24-33) ----
TEST_DNS == {"Google", "Cloudflare", "Ali", "114DNS"}
TEST_PORTS == {80, 443}

Addrs == 1 .. MaxAddr

TLS_TRUE == "True"
TLS_RESET == "TLS-Reset"
TLS_FALSE == "False"

IND_DNS == "DNS pollution"
IND_TLS == "TLS-Reset (suspected SNI block)"
IND_TCP == "TCP connection failure"
DNS_STATUS_POLLUTED == "suspected DNS pollution"
DNS_STATUS_CONSISTENT == "DNS resolution consistent"
ERR_NO_RESULT == "no valid resolution result"
CONCLUSION_BLOCKED == "domain suspected blocked"
CONCLUSION_CLEAR == "no obvious blocking found"

\* ---- dictionaries ----
EmptyDict == [k \in {} |-> TRUE]
Put(d, k, v) == [x \in DOMAIN d \cup {k} |-> IF x = k THEN v ELSE d[x]]
Get(d, k, default) == IF k \in DOMAIN d THEN d[k] ELSE default
Range(s) == {s[i] : i \in DOMAIN s}

\* ---- the probes, as functions of what the network does ----

\* What one dig call can do: fail (non-zero exit, timeout) or print lines.
\* The lines are the output after strip().split("\n"); an empty output is the
\* single blank line.  The addresses of one answer are distinct.
DigOutputs ==
    {s \in UNION {[1 .. n -> 0 .. MaxAddr] : n \in 1 .. MaxLines} :
        \A i, j \in DOMAIN s : (i # j /\ s[i] # 0) => s[i] # s[j]}
DigOutcomes ==
    {[ok |-> FALSE, lines |-> <<>>]} \cup {[ok |-> TRUE, lines |-> s] : s \in DigOutputs}

IsBlank(r) == r = 0

RECURSIVE NonBlank(_)
NonBlank(s) ==
    IF s = <<>> THEN <<>>
    ELSE IF IsBlank(Head(s)) THEN NonBlank(Tail(s))
    ELSE <<Head(s)>> \o NonBlank(Tail(s))

dig_query(out) == IF out.ok THEN NonBlank(out.lines) ELSE <<>>
\* mutant: a failing dig (CalledProcessError, TimeoutExpired) is not caught
dig_raisesOnFailure(out) == ~ out.ok
\* dig_query catches every Exception (lines 70-71): it never raises
dig_raises(out) == FALSE

TcpEvents == {"connected", "refused", "timeout", "unreachable"}
tcp_connect(ev) == ev = "connected"

\* What the network does to one handshake, by the exception Python raises:
\* ssl_error (ssl.SSLError: alert, protocol error), ssl_eof (ssl.SSLEOFError:
\* the peer closed during the handshake), cert_verify_failed
\* (ssl.SSLCertVerificationError), conn_reset (ConnectionResetError: a TCP RST
\* during connect or handshake), timeout (socket.timeout), refused
\* (ConnectionRefusedError).  The first three are ssl.SSLError, the others OSError.
TlsEvents == {"handshake_ok", "ssl_error", "ssl_eof", "cert_verify_failed",
              "conn_reset", "timeout", "refused"}
SSLErrors == {"ssl_error", "ssl_eof", "cert_verify_failed"}
tls_handshake(ev) ==
    IF ev = "handshake_ok" THEN TLS_TRUE
    ELSE IF ev \in SSLErrors THEN TLS_RESET
    ELSE TLS_FALSE

\* io_error: create_connection failed; no_reply: recv timed out or the peer
\* closed without data; other_reply: bytes that do not start with HTTP.
HttpEvents == {"http_reply", "other_reply", "no_reply", "io_error"}
http_head(ev) == ev = "http_reply"

\* ---- the sockets a probe call leaves open when it returns ----
\* tcp_connect: the with statement closes the connection (lines 77-78); a
\* failed create_connection leaves none.
tcp_connect_open(ev) == FALSE
\* tls_handshake: the with statement closes the wrapped socket on both the
\* normal and the exceptional exit (lines 87-90).
tls_handshake_open(ev) == FALSE
\* http_head: conn is never closed (lines 101-107); the socket is released
\* only when the interpreter finalizes the unreferenced object (collected).
http_head_open(ev, collected) == ev # "io_error" /\ ~ collected

\* ---- state ----
VARIABLES pc, dig, tcp, tls, http, report, all_ips, tls_tasks, http_tasks,
          completed, last_dig, calls, writes, gate, front, probe, socks, ncalls,
          me, other, request, response, invoked, pool

\* completed: the keys of the calls of the current gather, in the order in
\* which they returned.
\* gate: the sequential front-ends' second TCP probes; front: the program the
\* behaviour is of ("api", "cli", "gui" or "probe").  probe: the last single
\* probe call, socks: the sockets the calls so far left open, ncalls: the
\* number of calls so far (these three for the probe functions on their own).
\* me: the run of check_domain whose locals the variables above hold, other:
\* the locals of a second run on the same event loop.  request, response: the
\* HTTP request being handled and the status of its response; invoked: the
\* arguments check_domain was called with.  pool: the thread pool, by counts.
sideVars == <<me, other, request, response, invoked, pool>>
aux == <<gate, front, probe, socks, ncalls, sideVars>>
\* last_dig: the resolver whose dig call returned last in the DNS stage, and
\* what that call did.  calls: how many calls were submitted per probe key.
\* writes: how many times each key of a connectivity record was assigned.
vars == <<pc, dig, tcp, tls, http, report, all_ips, tls_tasks, http_tasks,
          completed, last_dig, calls, writes, aux>>

TcpKeys == Addrs \X TEST_PORTS

Idle(r) == [st |-> "none", res |-> r]
Inflight(r) == [st |-> "inflight", res |-> r]
Done(r) == [st |-> "done", res |-> r]
\* the call raised: the exception is set on the future
Raised(r) == [st |-> "raised", res |-> r]

NoProbe == [kind |-> "none", ev |-> "none", res |-> FALSE, raised |-> FALSE]
NoDig == [n |-> "none", out |-> [ok |-> FALSE, lines |-> <<>>]]
ConnKeys == {"tcp_80", "tcp_443", "tls", "http"}
Count(tasks, k) == Cardinality({i \in DOMAIN tasks : tasks[i] = k})

\* the locals of a run of check_domain that has not started
FreshRun ==
    [pc |-> "start",
     dig |-> [n \in TEST_DNS |-> Idle(<<>>)],
     tcp |-> [k \in TcpKeys |-> Idle(FALSE)],
     tls |-> [ip \in Addrs |-> Idle(TLS_FALSE)],
     http |-> [ip \in Addrs |-> Idle(FALSE)],
     report |-> [dns |-> EmptyDict, connectivity |-> EmptyDict, summary |-> EmptyDict],
     all_ips |-> {},
     tls_tasks |-> {},
     http_tasks |-> {},
     completed |-> <<>>,
     last_dig |-> NoDig,
     calls |-> [dig |-> [n \in TEST_DNS |-> 0], tcp |-> [k \in TcpKeys |-> 0],
                tls |-> [ip \in Addrs |-> 0], http |-> [ip \in Addrs |-> 0]],
     writes |-> [ip \in Addrs |-> [key \in ConnKeys |-> 0]]]

NoRequest == [method |-> "none", domain |-> <<>>]
\* nips: the size of the Address Set; issued, queued, running, finished: the
\* calls of the current stage; http: the size of http_tasks; others: the
\* workers busy with other runs' calls; waited: a stage issued more calls than
\* there were free workers
EmptyPool == [nips |-> 0, issued |-> 0, queued |-> 0, running |-> 0, finished |-> 0,
              http |-> 0, others |-> 0, waited |-> FALSE]

Base ==
    /\ dig = [n \in TEST_DNS |-> Idle(<<>>)]
    /\ tcp = [k \in TcpKeys |-> Idle(FALSE)]
    /\ tls = [ip \in Addrs |-> Idle(TLS_FALSE)]
    /\ http = [ip \in Addrs |-> Idle(FALSE)]
    /\ report = [dns |-> EmptyDict, connectivity |-> EmptyDict, summary |-> EmptyDict]
    /\ all_ips = {}
    /\ tls_tasks = {}
    /\ http_tasks = {}
    /\ completed = <<>>
    /\ last_dig = NoDig
    /\ calls = [dig |-> [n \in TEST_DNS |-> 0], tcp |-> [k \in TcpKeys |-> 0],
                tls |-> [ip \in Addrs |-> 0], http |-> [ip \in Addrs |-> 0]]
    /\ writes = [ip \in Addrs |-> [key \in ConnKeys |-> 0]]
    /\ gate = [k \in TcpKeys |-> Idle(FALSE)]
    /\ probe = NoProbe
    /\ socks = 0
    /\ ncalls = 0
    /\ me = "a"
    /\ other = FreshRun
    /\ request = NoRequest
    /\ response = 0
    /\ invoked = <<>>
    /\ pool = EmptyPool

Init ==
    /\ pc = "start"
    /\ front = "api"
    /\ Base

\* ---- asyncio.gather: the await resumes when every issued call has returned ----
Issued(futs) == {k \in DOMAIN futs : futs[k].st # "none"}
\* mutant: the await resumes on the first completion (asyncio.wait FIRST_COMPLETED)
GatheredAny(futs) == \E k \in Issued(futs) : futs[k].st = "done"
Gathered(futs) == \A k \in Issued(futs) : futs[k].st = "done"
\* gather re-raises the first exception of a call in the awaiting coroutine
AnyRaised(futs) == \E k \in DOMAIN futs : futs[k].st = "raised"

\* The list asyncio.gather returns: the i-th result is the result of the i-th
\* task, whatever the order (order) in which the calls returned.
\* mutant: the results come in completion order (asyncio.as_completed)
GatherAsCompleted(tasks, futs, order) == [i \in DOMAIN tasks |-> futs[order[i]].res]
GatherResults(tasks, futs, order) == [i \in DOMAIN tasks |-> futs[tasks[i]].res]

\* zip(tasks, results) folded into a dictionary keyed by the task's key
Zip(tasks, results) ==
    [k \in Range(tasks) |-> results[CHOOSE i \in DOMAIN tasks : tasks[i] = k]]

\* the order in which a set of addresses is iterated (fixed within a run)
RECURSIVE TaskList(_)
TaskList(S) ==
    IF S = {} THEN <<>>
    ELSE LET m == CHOOSE x \in S : \A y \in S : x <= y
         IN  <<m>> \o TaskList(S \ {m})

\* mutant: every resolver is queried twice (a retry)
DnsTasksTwice ==
    <<"Google", "Cloudflare", "Ali", "114DNS", "Google", "Cloudflare", "Ali", "114DNS">>
\* dns_tasks, in the order of TEST_DNS.items()
DnsTasks == <<"Google", "Cloudflare", "Ali", "114DNS">>

\* tcp_tasks: for ip in all_ips, for port in TEST_PORTS
RECURSIVE TcpTasks(_)
TcpTasks(ips) ==
    IF ips = {} THEN <<>>
    ELSE LET m == CHOOSE x \in ips : \A y \in ips : x <= y
         IN  <<<<m, 80>>, <<m, 443>>>> \o TcpTasks(ips \ {m})

\* what the coroutines return: async_tcp_connect (ip, port, result),
\* async_http_head (ip, result)
AsyncTcp(futs) ==
    [k \in DOMAIN futs |-> [st |-> futs[k].st, res |-> <<k[1], k[2], futs[k].res>>]]
AsyncHttp(futs) ==
    [ip \in DOMAIN futs |-> [st |-> futs[ip].st, res |-> <<ip, futs[ip].res>>]]

\* ---- check_domain, DNS stage (lines 157-176) ----
TcpKey(port) == IF port = 80 THEN "tcp_80" ELSE "tcp_443"

\* mutant: only the first resolver's answer is kept
AllIpsFirst(dns_dict) == Range(dns_dict["Google"])
AllIps(dns_dict) == UNION {Range(dns_dict[n]) : n \in DOMAIN dns_dict}
\* mutant: off by one in the comparison
DnsPollutionAny(ips) == Cardinality(ips) >= 1
DnsPollution(ips) == Cardinality(ips) > 1
\* mutant: a single address is taken for none
NoAddressLoose(ips) == Cardinality(ips) <= 1
NoAddress(ips) == ips = {}

DnsSummary(ips) ==
    [all_ips |-> ips,
     dns_pollution |-> DnsPollution(ips),
     dns_status |-> IF Cardinality(ips) > 1 THEN DNS_STATUS_POLLUTED
                    ELSE DNS_STATUS_CONSISTENT]

\* ---- check_domain, gates of the TLS / HTTP stage (lines 197-204) ----
\* mutant: the TLS probe is not gated on tcp_443
TlsTasksUngated(conn, ips) == ips
TlsTasks(conn, ips) == {ip \in ips : Get(conn[ip], "tcp_443", FALSE)}
HttpTasks(conn, ips) == {ip \in ips : Get(conn[ip], "tcp_80", FALSE)}

\* ---- check_domain, summary (lines 218-244) ----
\* mutant: the indicator needs every address to be reset
HasTlsResetAll(conn) == \A ip \in DOMAIN conn : Get(conn[ip], "tls", "None") = TLS_RESET
HasTlsReset(conn) == \E ip \in DOMAIN conn : Get(conn[ip], "tls", "None") = TLS_RESET
\* mutant: one address without any open port is enough
AnyAddrFailed(conn) ==
    \E ip \in DOMAIN conn :
        ~ (Get(conn[ip], "tcp_80", FALSE) \/ Get(conn[ip], "tcp_443", FALSE))
AllTcpFailed(conn) ==
    ~ \E ip \in DOMAIN conn :
        Get(conn[ip], "tcp_80", FALSE) \/ Get(conn[ip], "tcp_443", FALSE)

BlockedIndicators(summary, conn) ==
    (IF summary["dns_pollution"] THEN <<IND_DNS>> ELSE <<>>)
    \o (IF HasTlsReset(conn) THEN <<IND_TLS>> ELSE <<>>)
    \o (IF AllTcpFailed(conn) THEN <<IND_TCP>> ELSE <<>>)

\* mutant: off by one in the comparison
IsBlockedTwo(indicators) == Len(indicators) > 1
IsBlocked(indicators) == Len(indicators) > 0
Conclusion(blocked) == IF blocked THEN CONCLUSION_BLOCKED ELSE CONCLUSION_CLEAR

\* lines 241-244, ind being blocked_indicators
SummaryWith(summary, ind, blocked) ==
    Put(Put(Put(Put(summary, "blocked_indicators", ind),
                "is_blocked", blocked),
            "conclusion", Conclusion(blocked)),
        "elapsed_time", "elapsed")

SummariseWith(rep, ind) ==
    [rep EXCEPT !.summary = SummaryWith(rep.summary, ind, IsBlocked(ind))]

Summarise(rep) == SummariseWith(rep, BlockedIndicators(rep.summary, rep.connectivity))

\* ---- the segments of check_domain ----

\* lines 148-159: build the report, issue one dig per resolver, await them.
Begin ==
    /\ pc = "start"
    /\ dig' = [n \in TEST_DNS |-> Inflight(<<>>)]
    /\ pc' = "await_dns"
    /\ completed' = <<>>
    /\ calls' = [calls EXCEPT !.dig = [n \in TEST_DNS |-> calls.dig[n] + Count(DnsTasks, n)]]
    /\ UNCHANGED <<tcp, tls, http, report, all_ips, tls_tasks, http_tasks,
                   last_dig, writes, aux>>

\* lines 159-184: fold the DNS results; return early or issue the TCP probes.
AfterDns ==
    /\ pc = "await_dns"
    /\ Gathered(dig) \/ AnyRaised(dig)
    /\ last_dig' = NoDig
    /\ IF AnyRaised(dig)
       THEN /\ pc' = "raised"
            /\ UNCHANGED <<report, all_ips, tcp, completed, calls>>
       ELSE LET dns_dict == Zip(DnsTasks, GatherResults(DnsTasks, dig, completed))
                ips == AllIps(dns_dict)
                rep == [report EXCEPT !.dns = dns_dict, !.summary = DnsSummary(ips)]
            IN  /\ all_ips' = ips
                /\ IF NoAddress(ips)
                   THEN /\ report' =
                             [rep EXCEPT !.summary =
                                 Put(Put(rep.summary, "error", ERR_NO_RESULT),
                                     "elapsed_time", "elapsed")]
                        /\ pc' = "done"
                        /\ UNCHANGED <<tcp, completed, calls>>
                   ELSE /\ report' = rep
                        /\ tcp' = [k \in TcpKeys |->
                                     IF k \in Range(TcpTasks(ips)) THEN Inflight(FALSE)
                                     ELSE tcp[k]]
                        /\ calls' = [calls EXCEPT !.tcp =
                                        [k \in TcpKeys |->
                                            calls.tcp[k] + Count(TcpTasks(ips), k)]]
                        /\ completed' = <<>>
                        /\ pc' = "await_tcp"
    /\ UNCHANGED <<dig, tls, http, tls_tasks, http_tasks, writes, aux>>

\* lines 212-246, from a report rep whose tls keys are written: issue the HTTP
\* probes and await them, or go on to the summary.
HttpStage(rep, ht) ==
    IF ht # {}
    THEN /\ http' = [ip \in Addrs |-> IF ip \in ht THEN Inflight(FALSE) ELSE http[ip]]
         /\ calls' = [calls EXCEPT !.http =
                         [ip \in Addrs |-> calls.http[ip] + Count(TaskList(ht), ip)]]
         /\ completed' = <<>>
         /\ report' = rep
         /\ pc' = "await_http"
    ELSE /\ report' = Summarise(rep)
         /\ pc' = "done"
         /\ UNCHANGED <<http, completed, calls>>

\* lines 187-191: an empty record per address, then one key per TCP result,
\* keyed by the address and the port the result tuple carries.
TcpFold(ips, results) ==
    [ip \in ips |->
        [key \in {TcpKey(results[i][2]) : i \in {j \in DOMAIN results : results[j][1] = ip}}
            |-> results[CHOOSE i \in DOMAIN results :
                            results[i][1] = ip /\ TcpKey(results[i][2]) = key][3]]]

\* line 191 assigns one key per TCP result
TcpWrites(w, results) ==
    [ip \in Addrs |->
        [key \in ConnKeys |->
            w[ip][key] + Cardinality({i \in DOMAIN results :
                                        results[i][1] = ip /\ TcpKey(results[i][2]) = key})]]

\* lines 184-208 (and on to 214 or 246 when no TLS probe is due): record the
\* TCP results, build tls_tasks and http_tasks, issue the TLS probes.
TlsStage(rep, tt, ht) ==
    /\ tls_tasks' = tt
    /\ http_tasks' = ht
    /\ IF tt # {}
       THEN /\ tls' = [ip \in Addrs |-> IF ip \in tt THEN Inflight(TLS_FALSE) ELSE tls[ip]]
            /\ calls' = [calls EXCEPT !.tls =
                            [ip \in Addrs |-> calls.tls[ip] + Count(TaskList(tt), ip)]]
            /\ completed' = <<>>
            /\ report' = rep
            /\ pc' = "await_tls"
            /\ UNCHANGED http
       ELSE /\ HttpStage(rep, ht)
            /\ UNCHANGED tls

TcpStageEnd(results, conn) ==
    /\ TlsStage([report EXCEPT !.connectivity = conn],
                TlsTasks(conn, all_ips), HttpTasks(conn, all_ips))
    /\ writes' = TcpWrites(writes, results)

TcpStageFold(results) == TcpStageEnd(results, TcpFold(all_ips, results))

\* lines 184-208: the TCP gather resumes; fold its results and go on.
AfterTcp ==
    /\ pc = "await_tcp"
    /\ Gathered(tcp)
    /\ TcpStageFold(GatherResults(TcpTasks(all_ips), AsyncTcp(tcp), completed))
    /\ UNCHANGED <<dig, tcp, all_ips, last_dig, aux>>

\* lines 208-214: record the TLS results, then the HTTP probes.
AfterTls ==
    /\ pc = "await_tls"
    /\ Gathered(tls)
    /\ LET tasks == TaskList(tls_tasks)
           tls_results == Zip(tasks, GatherResults(tasks, tls, completed))
           conn == [ip \in DOMAIN report.connectivity |->
                      IF ip \in tls_tasks
                      THEN Put(report.connectivity[ip], "tls", tls_results[ip])
                      ELSE report.connectivity[ip]]
       IN  /\ HttpStage([report EXCEPT !.connectivity = conn], http_tasks)
           /\ writes' = [ip \in Addrs |->
                           [writes[ip] EXCEPT !["tls"] = @ + Count(tasks, ip)]]
    /\ UNCHANGED <<dig, tcp, tls, all_ips, tls_tasks, http_tasks, last_dig, aux>>

\* lines 214-246: record the HTTP results, then the summary.
AfterHttp ==
    /\ pc = "await_http"
    /\ Gathered(http)
    /\ LET tasks == TaskList(http_tasks)
           http_results == Zip(tasks, GatherResults(tasks, AsyncHttp(http), completed))
           conn == [ip \in DOMAIN report.connectivity |->
                      IF ip \in http_tasks
                      THEN Put(report.connectivity[ip], "http", http_results[ip])
                      ELSE report.connectivity[ip]]
       IN  /\ report' = Summarise([report EXCEPT !.connectivity = conn])
           /\ writes' = [ip \in Addrs |->
                           [writes[ip] EXCEPT !["http"] = @ + Count(tasks, ip)]]
    /\ pc' = "done"
    /\ UNCHANGED <<dig, tcp, tls, http, all_ips, tls_tasks, http_tasks, completed,
                   last_dig, calls, aux>>

\* ---- the probe calls returning on the pool's threads ----
DigReturnOf(n, outs) ==
    /\ dig[n].st = "inflight"
    /\ \E out \in outs :
          /\ dig' = [dig EXCEPT ![n] = IF dig_raises(out) THEN Raised(<<>>)
                                       ELSE Done(dig_query(out))]
          /\ last_dig' = [n |-> n, out |-> out]
    /\ completed' = Append(completed, n)
    /\ UNCHANGED <<pc, tcp, tls, http, report, all_ips, tls_tasks, http_tasks,
                   calls, writes, aux>>

DigReturn(n) == DigReturnOf(n, DigOutcomes)

TcpReturn(k) ==
    /\ tcp[k].st = "inflight"
    /\ \E ev \in TcpEvents : tcp' = [tcp EXCEPT ![k] = Done(tcp_connect(ev))]
    /\ completed' = Append(completed, k)
    /\ UNCHANGED <<pc, dig, tls, http, report, all_ips, tls_tasks, http_tasks,
                   last_dig, calls, writes, aux>>

TlsReturn(ip) ==
    /\ tls[ip].st = "inflight"
    /\ \E ev \in TlsEvents : tls' = [tls EXCEPT ![ip] = Done(tls_handshake(ev))]
    /\ completed' = Append(completed, ip)
    /\ UNCHANGED <<pc, dig, tcp, http, report, all_ips, tls_tasks, http_tasks,
                   last_dig, calls, writes, aux>>

HttpReturn(ip) ==
    /\ http[ip].st = "inflight"
    /\ \E ev \in HttpEvents : http' = [http EXCEPT ![ip] = Done(http_head(ev))]
    /\ completed' = Append(completed, ip)
    /\ UNCHANGED <<pc, dig, tcp, tls, report, all_ips, tls_tasks, http_tasks,
                   last_dig, calls, writes, aux>>

Next ==
    \/ Begin
    \/ AfterDns
    \/ AfterTcp
    \/ AfterTls
    \/ AfterHttp
    \/ \E n \in TEST_DNS : DigReturn(n)
    \/ \E k \in TcpKeys : TcpReturn(k)
    \/ \E ip \in Addrs : TlsReturn(ip)
    \/ \E ip \in Addrs : HttpReturn(ip)

Spec == Init /\ [][Next]_vars

\* ---- what the claims speak of ----
Returned == pc = "done"
PastDns == Returned /\ "error" \notin DOMAIN report.summary
Conn == report.connectivity
Indicators == Range(report.summary["blocked_indicators"])
\* the addresses the resolvers returned, read off the futures of the dig calls
Resolved == {a \in Addrs : \E n \in TEST_DNS : \E i \in DOMAIN dig[n].res : dig[n].res[i] = a}
TcpOk(ip, port) == tcp[<<ip, port>>] = Done(TRUE)

\* C1: in every returned report, for every address of connectivity the key
\* "tls" is present iff the recorded tcp_443 is true and the key "http" is
\* present iff the recorded tcp_80 is true; a TLS (HTTP) probe is issued only
\* for an address whose TCP probe on 443 (80) returned true.
GatingInvariant ==
    /\ Returned =>
          \A ip \in DOMAIN Conn :
              /\ ("tls" \in DOMAIN Conn[ip]) <=> (Conn[ip]["tcp_443"] = TRUE)
              /\ ("http" \in DOMAIN Conn[ip]) <=> (Conn[ip]["tcp_80"] = TRUE)
    /\ \A ip \in Addrs :
          /\ tls[ip].st # "none" => (TcpOk(ip, 443) /\ Conn[ip]["tcp_443"] = TRUE)
          /\ http[ip].st # "none" => (TcpOk(ip, 80) /\ Conn[ip]["tcp_80"] = TRUE)

\* C1 witness: a returned report with an address that has tls and no http and
\* another that has http and no tls.
GatingWitness ==
    /\ Returned
    /\ \E a, b \in DOMAIN Conn :
          /\ "tls" \in DOMAIN Conn[a] /\ "http" \notin DOMAIN Conn[a]
          /\ "http" \in DOMAIN Conn[b] /\ "tls" \notin DOMAIN Conn[b]
          /\ tls[b].st = "none" /\ http[a].st = "none"

\* C2: the returned report has summary.error exactly when the Address Set is
\* empty, which is exactly when every resolver returned an empty list; then
\* no TCP, TLS or HTTP probe was issued, connectivity is empty and
\* summary.elapsed_time is present.
EarlyTermination ==
    Returned =>
        /\ ("error" \in DOMAIN report.summary) <=> (report.summary["all_ips"] = {})
        /\ ("error" \in DOMAIN report.summary) <=> (\A n \in TEST_DNS : dig[n].res = <<>>)
        /\ "error" \in DOMAIN report.summary =>
              /\ Issued(tcp) = {} /\ Issued(tls) = {} /\ Issued(http) = {}
              /\ DOMAIN Conn = {}
              /\ "elapsed_time" \in DOMAIN report.summary

\* C2 witness: a run that returned with the error, after a resolver failed
\* and another printed only a blank line.
EarlyTerminationWitness ==
    /\ Returned
    /\ "error" \in DOMAIN report.summary
    /\ \A n \in TEST_DNS : dig[n] = Done(<<>>)

\* C3: once the DNS stage is folded, summary.all_ips, the Address Set and the
\* set of addresses that get TCP probes all equal the set of addresses that
\* at least one resolver returned.
AddressSetIsUnion ==
    "all_ips" \in DOMAIN report.summary =>
        /\ report.summary["all_ips"] = Resolved
        /\ all_ips = Resolved
        /\ {k[1] : k \in Issued(tcp)} = Resolved
        /\ \A n \in TEST_DNS : report.dns[n] = dig[n].res

\* C3 witness: two resolvers returned different single addresses, a third
\* returned both, and the Address Set holds the two.
AddressSetWitness ==
    /\ Returned
    /\ \E n, m, l \in TEST_DNS :
          /\ Len(dig[n].res) = 1 /\ Len(dig[m].res) = 1 /\ dig[n].res # dig[m].res
          /\ Len(dig[l].res) = 2
    /\ Cardinality(report.summary["all_ips"]) = 2

\* C4: in every returned report, summary.dns_pollution is true iff the
\* deduplicated set of the addresses in the report's dns mapping has more
\* than one element.
PollutionIsSize ==
    Returned =>
        (report.summary["dns_pollution"] = TRUE
            <=> Cardinality(UNION {Range(report.dns[n]) : n \in TEST_DNS}) > 1)

\* C4 witness: a returned report with dns_pollution true, and the resolvers
\* that answered disagreeing.
PollutionWitness ==
    /\ Returned
    /\ report.summary["dns_pollution"] = TRUE
    /\ \E n, m \in TEST_DNS : report.dns[n] = <<1>> /\ report.dns[m] = <<2>>

\* C5: dns_pollution is true only if two resolvers returned different address
\* lists, and when every resolver that answered returned the same set of
\* addresses, dns_pollution is false and the DNS indicator is absent.
PollutionIsDivergence ==
    Returned =>
        /\ report.summary["dns_pollution"] = TRUE =>
              \E n, m \in TEST_DNS : report.dns[n] # report.dns[m]
        /\ (\A n, m \in TEST_DNS :
                (report.dns[n] # <<>> /\ report.dns[m] # <<>>)
                    => Range(report.dns[n]) = Range(report.dns[m]))
              => /\ report.summary["dns_pollution"] = FALSE
                 /\ IND_DNS \notin Range(Get(report.summary, "blocked_indicators", <<>>))

\* C6: in every report returned past the DNS stage, the TLS-reset indicator
\* is in blocked_indicators iff some TLS probe returned Reset (and the report
\* records it), and then is_blocked is true.
TlsResetPropagation ==
    PastDns =>
        /\ (IND_TLS \in Indicators) <=> (\E ip \in DOMAIN Conn : tls[ip] = Done(TLS_RESET))
        /\ \A ip \in DOMAIN Conn :
              tls[ip].st = "done" => Conn[ip]["tls"] = tls[ip].res
        /\ IND_TLS \in Indicators => report.summary["is_blocked"] = TRUE

\* C6 witness: one address's TLS probe returned Reset, another's returned
\* success, every TCP probe succeeded, and the indicator is reported.
TlsResetWitness ==
    /\ PastDns
    /\ \E a, b \in DOMAIN Conn :
          /\ Get(Conn[a], "tls", "None") = TLS_RESET
          /\ Get(Conn[b], "tls", "None") = TLS_TRUE
    /\ \A k \in Issued(tcp) : tcp[k].res = TRUE
    /\ IND_TLS \in Indicators

\* C7: in every report returned past the DNS stage, the TCP-failure indicator
\* is in blocked_indicators iff no TCP probe of the run returned true.
TotalFailureIndicator ==
    PastDns =>
        /\ (IND_TCP \in Indicators) <=> (\A k \in Issued(tcp) : tcp[k].res = FALSE)
        /\ (IND_TCP \in Indicators) <=>
              (\A ip \in DOMAIN Conn : Conn[ip]["tcp_80"] = FALSE /\ Conn[ip]["tcp_443"] = FALSE)

\* C7 witness: of four TCP probes exactly one succeeded and the indicator is
\* absent.
TotalFailureWitness ==
    /\ PastDns
    /\ Cardinality({k \in Issued(tcp) : tcp[k].res = TRUE}) = 1
    /\ Cardinality(Issued(tcp)) = 4
    /\ IND_TCP \notin Indicators

\* C8: in every report returned past the DNS stage, is_blocked is true iff
\* blocked_indicators is non-empty, conclusion is the blocked string iff
\* is_blocked, and is_blocked is false iff the Address Set has one address,
\* no TLS probe returned Reset and some TCP probe succeeded.
Verdict ==
    PastDns =>
        /\ report.summary["is_blocked"] = TRUE
              <=> report.summary["blocked_indicators"] # <<>>
        /\ report.summary["conclusion"] = CONCLUSION_BLOCKED
              <=> report.summary["is_blocked"] = TRUE
        /\ report.summary["conclusion"] \in {CONCLUSION_BLOCKED, CONCLUSION_CLEAR}
        /\ report.summary["is_blocked"] = FALSE
              <=> /\ Cardinality(Resolved) = 1
                  /\ \A ip \in Addrs : tls[ip] # Done(TLS_RESET)
                  /\ \E k \in TcpKeys : tcp[k] = Done(TRUE)

\* C8 witness: two addresses, every TCP, TLS and HTTP probe succeeded, and
\* DNS pollution alone makes is_blocked true.
VerdictWitness ==
    /\ PastDns
    /\ Cardinality(DOMAIN Conn) = 2
    /\ \A ip \in DOMAIN Conn :
          /\ Conn[ip]["tcp_80"] = TRUE /\ Conn[ip]["tcp_443"] = TRUE
          /\ Conn[ip]["tls"] = TLS_TRUE /\ Conn[ip]["http"] = <<ip, TRUE>>
    /\ report.summary["blocked_indicators"] = <<IND_DNS>>
    /\ report.summary["is_blocked"] = TRUE

\* C9: a TCP probe is issued only when every resolver query has returned; a
\* TLS or HTTP probe is issued only when every TCP probe has returned and its
\* result is recorded in the report; probes of two stages are never in flight
\* together.
StageOrdering ==
    /\ Issued(tcp) # {} => \A n \in TEST_DNS : dig[n].st = "done"
    /\ Issued(tls) \cup Issued(http) # {} =>
          /\ Issued(tcp) # {}
          /\ \A k \in Issued(tcp) :
                /\ tcp[k].st = "done"
                /\ Conn[k[1]][TcpKey(k[2])] = tcp[k].res
    /\ (\E n \in TEST_DNS : dig[n].st = "inflight") =>
          Issued(tcp) = {} /\ Issued(tls) = {} /\ Issued(http) = {}
    /\ (\E k \in TcpKeys : tcp[k].st = "inflight") =>
          Issued(tls) = {} /\ Issued(http) = {}

\* C9 witness: a TLS probe is in flight after four TCP probes returned.
StageOrderingWitness ==
    /\ \E ip \in Addrs : tls[ip].st = "inflight"
    /\ Cardinality({k \in TcpKeys : tcp[k].st = "done"}) = 4

\* C10: every TLS and HTTP probe of the run is issued before check_domain
\* waits for any of them: while it waits for the TLS probes, the HTTP probes
\* of http_tasks are issued.
TlsHttpIssuedTogether ==
    pc = "await_tls" => \A ip \in http_tasks : http[ip].st # "none"

\* ---- the report as a function of the probe outcomes alone ----
ExpectedRecord(ip) ==
    [key \in {"tcp_80", "tcp_443"}
            \cup (IF tcp[<<ip, 443>>].res THEN {"tls"} ELSE {})
            \cup (IF tcp[<<ip, 80>>].res THEN {"http"} ELSE {}) |->
        IF key = "tcp_80" THEN tcp[<<ip, 80>>].res
        ELSE IF key = "tcp_443" THEN tcp[<<ip, 443>>].res
        ELSE IF key = "tls" THEN tls[ip].res
        ELSE <<ip, http[ip].res>>]
ExpectedIndicators ==
    (IF Cardinality(Resolved) > 1 THEN <<IND_DNS>> ELSE <<>>)
    \o (IF \E ip \in Resolved : tls[ip] = Done(TLS_RESET) THEN <<IND_TLS>> ELSE <<>>)
    \o (IF \A ip \in Resolved : \A p \in TEST_PORTS : ~ tcp[<<ip, p>>].res
        THEN <<IND_TCP>> ELSE <<>>)

\* C11: whatever the order in which the calls of a stage returned, the
\* returned report is the one the probe outcomes fix: each resolver's list is
\* under that resolver's name, each TCP, TLS and HTTP result under the
\* address (and port) it was issued for, and dns_pollution, blocked_indicators,
\* is_blocked and conclusion follow from them.
OrderIndependence ==
    Returned =>
        /\ DOMAIN report.dns = TEST_DNS
        /\ \A n \in TEST_DNS : report.dns[n] = dig[n].res
        /\ DOMAIN Conn = Resolved
        /\ \A ip \in DOMAIN Conn :
              /\ DOMAIN Conn[ip] = DOMAIN ExpectedRecord(ip)
              /\ \A key \in DOMAIN Conn[ip] : Conn[ip][key] = ExpectedRecord(ip)[key]
        /\ report.summary["dns_pollution"] = (Cardinality(Resolved) > 1)
        /\ PastDns =>
              /\ report.summary["blocked_indicators"] = ExpectedIndicators
              /\ report.summary["is_blocked"] = (ExpectedIndicators # <<>>)
              /\ report.summary["conclusion"] =
                    (IF ExpectedIndicators # <<>> THEN CONCLUSION_BLOCKED
                     ELSE CONCLUSION_CLEAR)

\* C11 witness: the HTTP probe of address 2 returned before that of address
\* 1, with different results, the TLS results differ too, and the report is
\* returned.
OrderIndependenceWitness ==
    /\ PastDns
    /\ http[1] = Done(TRUE) /\ http[2] = Done(FALSE)
    /\ completed = <<2, 1>>
    /\ tls[1] = Done(TLS_RESET) /\ tls[2] = Done(TLS_TRUE)
    /\ \E n, m \in TEST_DNS : dig[n].res = <<1>> /\ dig[m].res = <<2, 1>>

DnsFolded == "all_ips" \in DOMAIN report.summary
AllBlank(lines) == \A i \in DOMAIN lines : IsBlank(lines[i])

\* C13: whichever resolvers fail or return nothing, check_domain does not
\* raise; a dig call that failed or printed nothing leaves the empty list;
\* the dns mapping has exactly the configured resolver names as keys, with the
\* empty list for such a resolver; and every address another resolver
\* returned is in the Address Set, gets its TCP probes and, in the returned
\* report, its connectivity record.
PartialFailureTolerance ==
    /\ pc # "raised"
    /\ \A n \in TEST_DNS : dig[n].st # "raised"
    /\ (last_dig.n # "none" /\ (~ last_dig.out.ok \/ AllBlank(last_dig.out.lines)))
          => dig[last_dig.n] = Done(<<>>)
    /\ DnsFolded =>
          /\ DOMAIN report.dns = TEST_DNS
          /\ \A n \in TEST_DNS :
                /\ dig[n].res = <<>> => report.dns[n] = <<>>
                /\ \A i \in DOMAIN dig[n].res :
                      /\ dig[n].res[i] \in all_ips
                      /\ \A p \in TEST_PORTS : tcp[<<dig[n].res[i], p>>].st # "none"
                      /\ Returned => dig[n].res[i] \in DOMAIN Conn

\* C13 witness: three resolvers gave nothing, the fourth returned two
\* addresses, and the returned report has a connectivity record for both.
PartialFailureWitness ==
    /\ PastDns
    /\ Cardinality({n \in TEST_DNS : report.dns[n] = <<>>}) = 3
    /\ DOMAIN Conn = {1, 2}
    /\ \A ip \in DOMAIN Conn : Conn[ip]["tcp_80"] = TRUE

\* C14: in one run each resolver is queried exactly once, each (address,
\* port) of the Address Set gets exactly one TCP probe and no other pair gets
\* one, each address gets at most one TLS and one HTTP probe, and each key of
\* a connectivity record is assigned at most once (exactly once when present
\* in the returned report).
SingleAttempt ==
    /\ \A n \in TEST_DNS : calls.dig[n] = (IF pc = "start" THEN 0 ELSE 1)
    /\ \A k \in TcpKeys :
          /\ calls.tcp[k] = (IF tcp[k].st = "none" THEN 0 ELSE 1)
          /\ pc \in {"await_tcp", "await_tls", "await_http"} \/ PastDns
                => (calls.tcp[k] = 1 <=> k[1] \in Resolved)
    /\ \A ip \in Addrs :
          /\ calls.tls[ip] = (IF tls[ip].st = "none" THEN 0 ELSE 1)
          /\ calls.http[ip] = (IF http[ip].st = "none" THEN 0 ELSE 1)
          /\ \A key \in ConnKeys : writes[ip][key] <= 1
    /\ Returned =>
          \A ip \in Addrs : \A key \in ConnKeys :
              writes[ip][key] = 1 <=> (ip \in DOMAIN Conn /\ key \in DOMAIN Conn[ip])

\* C14 witness: a returned report with two addresses and all four keys
\* written for both.
SingleAttemptWitness ==
    /\ Returned
    /\ \A ip \in Addrs : \A key \in ConnKeys : writes[ip][key] = 1
    /\ \A ip \in Addrs : calls.tls[ip] = 1 /\ calls.http[ip] = 1

IndicatorRank(i) == IF i = IND_DNS THEN 1 ELSE IF i = IND_TLS THEN 2 ELSE 3

\* C19: in every report returned past the DNS stage, blocked_indicators never
\* holds both the TLS-reset and the TCP-failure indicator, holds no entry
\* twice, and lists its entries in the order DNS pollution, TLS reset, TCP
\* connection failure.
IndicatorShape ==
    PastDns =>
        LET ind == report.summary["blocked_indicators"]
        IN  /\ ~ (IND_TLS \in Range(ind) /\ IND_TCP \in Range(ind))
            /\ Range(ind) \subseteq {IND_DNS, IND_TLS, IND_TCP}
            /\ \A i, j \in DOMAIN ind :
                  i < j => IndicatorRank(ind[i]) < IndicatorRank(ind[j])

\* C19 witness: a report with two indicators, DNS pollution then TLS reset,
\* while one address has no open port at all.
IndicatorShapeWitness ==
    /\ PastDns
    /\ report.summary["blocked_indicators"] = <<IND_DNS, IND_TLS>>
    /\ \E ip \in DOMAIN Conn : Conn[ip]["tcp_80"] = FALSE /\ Conn[ip]["tcp_443"] = FALSE

\* ---- the probe functions on their own: up to MaxCalls calls in a row ----
runVars == <<dig, tcp, tls, http, report, all_ips, tls_tasks, http_tasks,
             completed, last_dig, calls, writes>>

InitProbe ==
    /\ pc = "probe"
    /\ front = "probe"
    /\ Base

ProbeCall(kind, ev, res, open) ==
    /\ pc = "probe"
    /\ ncalls < MaxCalls
    /\ probe' = [kind |-> kind, ev |-> ev, res |-> res, raised |-> FALSE]
    /\ socks' = socks + (IF open THEN 1 ELSE 0)
    /\ ncalls' = ncalls + 1
    /\ UNCHANGED <<pc, runVars, gate, front, sideVars>>

ProbeDig ==
    \E out \in DigOutcomes :
        /\ ProbeCall("dig", out, dig_query(out), FALSE)
        /\ ~ dig_raises(out)
ProbeTcp == \E ev \in TcpEvents : ProbeCall("tcp", ev, tcp_connect(ev), tcp_connect_open(ev))
ProbeTls ==
    \E ev \in TlsEvents : ProbeCall("tls", ev, tls_handshake(ev), tls_handshake_open(ev))
ProbeHttp ==
    \E ev \in HttpEvents : \E collected \in BOOLEAN :
        ProbeCall("http", ev, http_head(ev), http_head_open(ev, collected))

NextProbe == ProbeDig \/ ProbeTcp \/ ProbeTls \/ ProbeHttp

SpecProbe == InitProbe /\ [][NextProbe]_vars

\* C12: tls_handshake returns Success exactly when the handshake completes,
\* Reset exactly when the connection is reset or abruptly closed during the
\* handshake, and OtherFailure for every other failure, among them timeout,
\* certificate verification failure and connection refused; it never raises.
TlsClassification ==
    probe.kind = "tls" =>
        /\ ~ probe.raised
        /\ probe.res = TLS_TRUE <=> probe.ev = "handshake_ok"
        /\ probe.res = TLS_RESET <=> probe.ev \in {"conn_reset", "ssl_eof"}
        /\ probe.ev \in {"timeout", "cert_verify_failed", "refused", "ssl_error"}
              => probe.res = TLS_FALSE

\* C20: every connection a probe call opens is closed when the call returns,
\* on every path: no call leaves a socket open.
SocketsReleased == socks = 0

\* ---- the sequential front-ends: run() of DomainCheckCli.py and ----
\* ---- Worker.local_test() of DomainCheckGUI.py                  ----
\* Every probe is a blocking call made in program order; tcp holds the result
\* of the recorded TCP probe of an (address, port), gate the result of the
\* second TCP probe that decides whether the TLS or HTTP probe is made.  The
\* GUI makes no HTTP probe.  Each dig call fails or returns the addresses
\* 1 .. MaxLines.
CliDigOutcomes ==
    {o \in DigOutcomes : ~ o.ok \/ o.lines = [i \in 1 .. MaxLines |-> i]}

cliVars == <<tls_tasks, http_tasks, completed, last_dig, calls, writes,
             probe, socks, ncalls, front, sideVars>>

InitCli ==
    /\ pc = "cli_dns"
    /\ front \in {"cli", "gui"}
    /\ Base

\* the address of the current iteration of "for ip in ips"
CurIp == CHOOSE ip \in DOMAIN report.connectivity :
            \A j \in DOMAIN report.connectivity : j <= ip

Record(ip, key, v) ==
    [report EXCEPT !.connectivity = Put(@, ip, Put(@[ip], key, v))]

\* Cli lines 97-100, GUI lines 84-86: the next resolver of TEST_DNS is queried
CliDig ==
    /\ pc = "cli_dns"
    /\ \E i \in DOMAIN DnsTasks :
          /\ dig[DnsTasks[i]].st = "none"
          /\ \A j \in 1 .. i - 1 : dig[DnsTasks[j]].st = "done"
          /\ \E out \in CliDigOutcomes :
                dig' = [dig EXCEPT ![DnsTasks[i]] = Done(dig_query(out))]
    /\ UNCHANGED <<pc, tcp, tls, http, report, all_ips, gate, cliVars>>

\* Cli lines 102-117, GUI lines 88-89: the Address Set; return when it is empty
CliDnsDone ==
    /\ pc = "cli_dns"
    /\ \A n \in TEST_DNS : dig[n].st = "done"
    /\ LET dns_results == [n \in TEST_DNS |-> dig[n].res]
       IN  /\ report' = [report EXCEPT !.dns = dns_results]
           /\ all_ips' = AllIps(dns_results)
           /\ pc' = IF AllIps(dns_results) = {} THEN "done" ELSE "cli_next"
    /\ UNCHANGED <<dig, tcp, tls, http, gate, cliVars>>

\* Cli lines 119-121, GUI lines 91-92: the next address, or the end of the loop
CliNextIp ==
    /\ pc = "cli_next"
    /\ LET rest == all_ips \ DOMAIN report.connectivity
       IN  IF rest = {}
           THEN /\ pc' = "done"
                /\ UNCHANGED report
           ELSE /\ report' = [report EXCEPT !.connectivity =
                                Put(@, TaskList(rest)[1], EmptyDict)]
                /\ pc' = "cli_tcp"
    /\ UNCHANGED <<dig, tcp, tls, http, all_ips, gate, cliVars>>

\* Cli lines 124-126, GUI lines 93-94: the recorded TCP probes, port 80 then 443
CliTcp ==
    /\ pc = "cli_tcp"
    /\ LET p == IF "tcp_80" \in DOMAIN report.connectivity[CurIp] THEN 443 ELSE 80
       IN  /\ \E ev \in TcpEvents :
                 /\ tcp' = [tcp EXCEPT ![<<CurIp, p>>] = Done(tcp_connect(ev))]
                 /\ report' = Record(CurIp, TcpKey(p), tcp_connect(ev))
           /\ pc' = IF p = 443 THEN "cli_gate_tls" ELSE "cli_tcp"
    /\ UNCHANGED <<dig, tls, http, all_ips, gate, cliVars>>

\* where the loop body goes after the TLS part
AfterTlsPart == IF front = "cli" THEN "cli_gate_http" ELSE "cli_next"

\* Cli line 130, GUI line 96: "if tcp_connect(ip, 443)", a second probe
CliGateTls ==
    /\ pc = "cli_gate_tls"
    /\ \E ev \in TcpEvents :
          /\ gate' = [gate EXCEPT ![<<CurIp, 443>>] = Done(tcp_connect(ev))]
          /\ pc' = IF tcp_connect(ev) THEN "cli_tls" ELSE AfterTlsPart
    /\ UNCHANGED <<dig, tcp, tls, http, report, all_ips, cliVars>>

\* Cli lines 131-132, GUI line 97
CliTls ==
    /\ pc = "cli_tls"
    /\ \E ev \in TlsEvents :
          /\ tls' = [tls EXCEPT ![CurIp] = Done(tls_handshake(ev))]
          /\ report' = Record(CurIp, "tls", tls_handshake(ev))
    /\ pc' = AfterTlsPart
    /\ UNCHANGED <<dig, tcp, http, all_ips, gate, cliVars>>

\* Cli line 141: "if tcp_connect(ip, 80)", a second probe
CliGateHttp ==
    /\ pc = "cli_gate_http"
    /\ \E ev \in TcpEvents :
          /\ gate' = [gate EXCEPT ![<<CurIp, 80>>] = Done(tcp_connect(ev))]
          /\ pc' = IF tcp_connect(ev) THEN "cli_http" ELSE "cli_next"
    /\ UNCHANGED <<dig, tcp, tls, http, report, all_ips, cliVars>>

\* Cli lines 142-143
CliHttp ==
    /\ pc = "cli_http"
    /\ \E ev \in HttpEvents :
          /\ http' = [http EXCEPT ![CurIp] = Done(http_head(ev))]
          /\ report' = Record(CurIp, "http", http_head(ev))
    /\ pc' = "cli_next"
    /\ UNCHANGED <<dig, tcp, tls, all_ips, gate, cliVars>>

NextCli ==
    \/ CliDig
    \/ CliDnsDone
    \/ CliNextIp
    \/ CliTcp
    \/ CliGateTls
    \/ CliTls
    \/ CliGateHttp
    \/ CliHttp

SpecCli == InitCli /\ [][NextCli]_vars

\* C18: in the report the CLI's run() and the GUI's local_test() build, for
\* every address the key "tls" is present iff the recorded tcp_443 is true,
\* and in the CLI the key "http" is present iff the recorded tcp_80 is true.
FrontEndGating ==
    Returned =>
        \A ip \in DOMAIN Conn :
            /\ ("tls" \in DOMAIN Conn[ip]) <=> (Conn[ip]["tcp_443"] = TRUE)
            /\ front = "cli" =>
                  (("http" \in DOMAIN Conn[ip]) <=> (Conn[ip]["tcp_80"] = TRUE))

\* ---- the request layer: check_domain_get and check_domain_post ----
\* A domain is a string of at most MaxDomainLen characters, each a space, a
\* tab or a character that is not whitespace.
Whitespace == {" ", "\t"}
DomainChars == Whitespace \cup {"a"}
Domains == UNION {[1 .. n -> DomainChars] : n \in 0 .. MaxDomainLen}

\* str.strip(): whitespace removed at both ends
RECURSIVE lstrip(_)
lstrip(d) ==
    IF d = <<>> \/ Head(d) \notin Whitespace THEN d ELSE lstrip(Tail(d))
RECURSIVE rstrip(_)
rstrip(d) ==
    IF d = <<>> \/ d[Len(d)] \notin Whitespace THEN d
    ELSE rstrip(SubSeq(d, 1, Len(d) - 1))
strip(d) == rstrip(lstrip(d))

\* mutant: the test "not domain" alone, without the strip
BlankGetNoStrip(d) == d = <<>>
\* line 269: not domain or not domain.strip()
BlankGet(d) == d = <<>> \/ strip(d) = <<>>
\* lines 283-284: domain = request.domain.strip(); not domain
BlankPost(d) == strip(d) = <<>>

apiVars == <<dig, tcp, tls, http, report, all_ips, tls_tasks, http_tasks,
             completed, last_dig, calls, writes, gate, front, probe, socks,
             ncalls, me, other, pool>>

InitApi ==
    /\ pc = "api_idle"
    /\ front = "api"
    /\ Base

\* a request for GET /check or POST /check reaches its handler
ApiRequest ==
    /\ pc = "api_idle"
    /\ \E m \in {"GET", "POST"} : \E d \in Domains :
          request' = [method |-> m, domain |-> d]
    /\ pc' = "api_recv"
    /\ UNCHANGED <<response, invoked, apiVars>>

\* the handler up to its await: reject, or call check_domain(domain)
Handle(blank, domain) ==
    IF blank
    THEN /\ response' = 400
         /\ pc' = "api_done"
         /\ UNCHANGED invoked
    ELSE /\ invoked' = Append(invoked, domain)
         /\ pc' = "start"
         /\ UNCHANGED response

\* lines 269-274
check_domain_get ==
    /\ pc = "api_recv"
    /\ request.method = "GET"
    /\ Handle(BlankGet(request.domain), strip(request.domain))
    /\ UNCHANGED <<request, apiVars>>

\* lines 283-288
check_domain_post ==
    /\ pc = "api_recv"
    /\ request.method = "POST"
    /\ Handle(BlankPost(request.domain), strip(request.domain))
    /\ UNCHANGED <<request, apiVars>>

\* lines 274-277 and 288-291: the awaited check_domain returns a report, which
\* is sent with status 200, or raises, which is turned into status 500.  What
\* the run does between its first segment and its end is the specification
\* Spec; the handler sees only how it ended.
CheckDomainEnds ==
    /\ pc = "await_dns"
    /\ request # NoRequest
    /\ \E ok \in BOOLEAN : response' = IF ok THEN 200 ELSE 500
    /\ pc' = "api_done"
    /\ UNCHANGED <<request, invoked, apiVars>>

NextApi ==
    \/ ApiRequest
    \/ check_domain_get
    \/ check_domain_post
    \/ Begin
    \/ CheckDomainEnds

SpecApi == InitApi /\ [][NextApi]_vars

Handled == request # NoRequest /\ pc # "api_recv"
OnlyWhitespace(d) == \A i \in DOMAIN d : d[i] \in Whitespace
\* the domain without its leading and trailing whitespace, by positions
Stripped(d) ==
    LET I == {i \in DOMAIN d : d[i] \notin Whitespace}
    IN  IF I = {} THEN <<>>
        ELSE SubSeq(d, CHOOSE i \in I : \A j \in I : i <= j,
                       CHOOSE i \in I : \A j \in I : j <= i)

\* C17: once the handler of GET /check or POST /check has acted on a request,
\* an empty or whitespace-only domain has got status 400, check_domain was not
\* invoked and no probe was issued; any other domain has had check_domain
\* invoked exactly once, with the stripped domain, and has not got status 400.
BlankRejection ==
    Handled =>
        IF OnlyWhitespace(request.domain)
        THEN /\ response = 400
             /\ invoked = <<>>
             /\ Issued(dig) = {}
             /\ \A n \in TEST_DNS : calls.dig[n] = 0
        ELSE /\ invoked = <<Stripped(request.domain)>>
             /\ response # 400

\* C17 witness: GET /check with a domain of whitespace only, not empty, was
\* answered with status 400 without a call of check_domain.
BlankRejectionWitness ==
    /\ request.method = "GET"
    /\ Len(request.domain) = MaxDomainLen
    /\ OnlyWhitespace(request.domain)
    /\ pc = "api_done"
    /\ response = 400
    /\ invoked = <<>>

\* ---- check_domain on the shared thread pool, by counts ----
\* run_in_executor puts every call of a stage on the queue of the one
\* ThreadPoolExecutor; a free worker takes a queued call, the call returns and
\* frees the worker.  Other runs' calls hold workers too (others).  The
\* results of the calls are left open: the size of the Address Set and of
\* tls_tasks and http_tasks are any the results could give.
max_workers == 20

\* mutant: the calls beyond the size of the pool are dropped
EnqueuedWithinPool(n) == IF n > max_workers THEN max_workers ELSE n
\* every call handed to run_in_executor is queued
Enqueued(n) == n

\* a stage hands its n calls to the pool
Submit(n) ==
    [pool EXCEPT !.issued = n, !.queued = Enqueued(n), !.finished = 0,
                 !.waited = @ \/ n > max_workers - pool.others]

\* await asyncio.gather(*tasks): every call of the stage has returned
StageDone == pool.finished = pool.issued

poolVars == <<dig, tcp, tls, http, report, all_ips, tls_tasks, http_tasks,
              completed, last_dig, calls, writes, gate, front, probe, socks,
              ncalls, me, other, request, response, invoked>>

InitPool ==
    /\ pc = "start"
    /\ front = "api"
    /\ Base

\* lines 157-159: one dig call per resolver
PoolBegin ==
    /\ pc = "start"
    /\ pool' = Submit(Cardinality(TEST_DNS))
    /\ pc' = "await_dns"
    /\ UNCHANGED poolVars

\* a free worker takes a queued call of this run
PoolStart ==
    /\ pool.queued > 0
    /\ pool.running + pool.others < max_workers
    /\ pool' = [pool EXCEPT !.queued = @ - 1, !.running = @ + 1]
    /\ UNCHANGED <<pc, poolVars>>

\* a call of this run returns (a result or an absorbed failure)
PoolReturn ==
    /\ pool.running > 0
    /\ pool' = [pool EXCEPT !.running = @ - 1, !.finished = @ + 1]
    /\ UNCHANGED <<pc, poolVars>>

\* a call of another run takes a free worker, or returns
OtherStart ==
    /\ pool.running + pool.others < max_workers
    /\ pool' = [pool EXCEPT !.others = @ + 1]
    /\ UNCHANGED <<pc, poolVars>>

OtherReturn ==
    /\ pool.others > 0
    /\ pool' = [pool EXCEPT !.others = @ - 1]
    /\ UNCHANGED <<pc, poolVars>>

\* lines 159-184: n addresses resolved; return early or issue the TCP probes
PoolAfterDns ==
    /\ pc = "await_dns"
    /\ StageDone
    /\ \E n \in 0 .. MaxPoolAddrs :
          IF n = 0
          THEN /\ pc' = "done"
               /\ pool' = [pool EXCEPT !.nips = n]
          ELSE /\ pc' = "await_tcp"
               /\ pool' = [Submit(n * Cardinality(TEST_PORTS)) EXCEPT !.nips = n]
    /\ UNCHANGED poolVars

\* lines 212-214, or the summary
PoolHttpStage(h) ==
    IF h > 0
    THEN /\ pc' = "await_http"
         /\ pool' = [Submit(h) EXCEPT !.http = h]
    ELSE /\ pc' = "done"
         /\ pool' = [pool EXCEPT !.http = h]

\* lines 184-208: t addresses with tcp_443 open, h with tcp_80 open
PoolAfterTcp ==
    /\ pc = "await_tcp"
    /\ StageDone
    /\ \E t \in 0 .. pool.nips : \E h \in 0 .. pool.nips :
          IF t > 0
          THEN /\ pc' = "await_tls"
               /\ pool' = [Submit(t) EXCEPT !.http = h]
          ELSE PoolHttpStage(h)
    /\ UNCHANGED poolVars

\* lines 208-214
PoolAfterTls ==
    /\ pc = "await_tls"
    /\ StageDone
    /\ PoolHttpStage(pool.http)
    /\ UNCHANGED poolVars

\* lines 214-246
PoolAfterHttp ==
    /\ pc = "await_http"
    /\ StageDone
    /\ pc' = "done"
    /\ UNCHANGED <<pool, poolVars>>

PoolRun ==
    \/ PoolBegin
    \/ PoolAfterDns
    \/ PoolAfterTcp
    \/ PoolAfterTls
    \/ PoolAfterHttp

NextPool ==
    \/ PoolRun
    \/ PoolStart
    \/ PoolReturn
    \/ OtherStart
    \/ OtherReturn

\* The event loop resumes a coroutine whose await is complete; every call
\* that runs returns within its timeout; the pool's queue is first in, first
\* out, so a queued call is taken after the finitely many calls before it.
SpecPool ==
    /\ InitPool
    /\ [][NextPool]_vars
    /\ WF_vars(PoolRun)
    /\ WF_vars(PoolReturn)
    /\ WF_vars(OtherReturn)
    /\ SF_vars(PoolStart)

\* C16: every run of check_domain eventually returns, whatever the number of
\* addresses, also when a stage issues more calls than the pool has workers
\* and when other runs hold workers; a stage is left only when every call it
\* issued has returned.
Termination ==
    /\ <>(pc = "done")
    /\ [][pc' # pc => pool.finished = pool.issued]_vars

\* C16 witness: a run has returned whose TCP stage issued more calls than the
\* pool has workers, while other runs held workers.
TerminationWitness ==
    /\ pc = "done"
    /\ pool.nips * Cardinality(TEST_PORTS) > max_workers
    /\ pool.waited
    /\ pool.others > 0
    /\ pool.http > 0

\* ---- two runs of check_domain on one event loop ----
\* The variables of the run hold the locals of the run the loop or a pool
\* thread is working for (me); the locals of the other run are in other.
\* Switch passes from one run to the other, so every interleaving of the
\* segments and of the probe returns of the two runs is a behaviour.  The two
\* runs are for different domains: every resolver answers run "a" with
\* address 1 and run "b" with address MaxAddr; the TCP, TLS and HTTP probes
\* of either run end in any way they can.
Locals ==
    [pc |-> pc, dig |-> dig, tcp |-> tcp, tls |-> tls, http |-> http,
     report |-> report, all_ips |-> all_ips, tls_tasks |-> tls_tasks,
     http_tasks |-> http_tasks, completed |-> completed, last_dig |-> last_dig,
     calls |-> calls, writes |-> writes]

Peer(id) == IF id = "a" THEN "b" ELSE "a"
OwnAddr(id) == IF id = "a" THEN 1 ELSE MaxAddr

TwoDigOutcomes == {o \in DigOutcomes : o.ok /\ o.lines = <<OwnAddr(me)>>}

\* mutant: all_ips is a module-level variable, one for both runs
SharedAllIps(mine, saved) == mine
\* all_ips is a local of check_domain (line 174): the run resumed finds its own
ResumedAllIps(mine, saved) == saved

Switch ==
    /\ me' = Peer(me)
    /\ other' = Locals
    /\ pc' = other.pc
    /\ dig' = other.dig
    /\ tcp' = other.tcp
    /\ tls' = other.tls
    /\ http' = other.http
    /\ report' = other.report
    /\ all_ips' = ResumedAllIps(all_ips, other.all_ips)
    /\ tls_tasks' = other.tls_tasks
    /\ http_tasks' = other.http_tasks
    /\ completed' = other.completed
    /\ last_dig' = other.last_dig
    /\ calls' = other.calls
    /\ writes' = other.writes
    /\ UNCHANGED <<gate, front, probe, socks, ncalls, request, response, invoked, pool>>

NextTwo ==
    \/ Begin
    \/ AfterDns
    \/ AfterTcp
    \/ AfterTls
    \/ AfterHttp
    \/ \E n \in TEST_DNS : DigReturnOf(n, TwoDigOutcomes)
    \/ \E k \in TcpKeys : TcpReturn(k)
    \/ \E ip \in Addrs : TlsReturn(ip)
    \/ \E ip \in Addrs : HttpReturn(ip)
    \/ Switch

SpecTwo == Init /\ [][NextTwo]_vars

\* The report of a run on its own, as a function of what its probe calls
\* returned (r: the locals of the run, the results read off its futures).
AloneRecord(r, ip) ==
    LET t80 == r.tcp[<<ip, 80>>].res
        t443 == r.tcp[<<ip, 443>>].res
        both == Put(Put(EmptyDict, "tcp_80", t80), "tcp_443", t443)
        withTls == IF t443 THEN Put(both, "tls", r.tls[ip].res) ELSE both
    IN  IF t80 THEN Put(withTls, "http", <<ip, r.http[ip].res>>) ELSE withTls

AloneReport(r) ==
    LET dns_dict == [n \in TEST_DNS |-> r.dig[n].res]
        ips == AllIps(dns_dict)
    IN  IF ips = {}
        THEN [dns |-> dns_dict, connectivity |-> EmptyDict,
              summary |-> Put(Put(DnsSummary(ips), "error", ERR_NO_RESULT),
                              "elapsed_time", "elapsed")]
        ELSE Summarise([dns |-> dns_dict,
                        connectivity |-> [ip \in ips |-> AloneRecord(r, ip)],
                        summary |-> DnsSummary(ips)])

OwnOnly(r, id) ==
    /\ r.all_ips \subseteq {OwnAddr(id)}
    /\ DOMAIN r.report.connectivity \subseteq {OwnAddr(id)}
    /\ \A n \in DOMAIN r.report.dns : Range(r.report.dns[n]) \subseteq {OwnAddr(id)}

\* C15: with two runs for different domains interleaved on one loop and one
\* pool, the report each run returns is the report the run gives on its own
\* for what its own probe calls returned, and the address set and the report
\* of a run never hold anything of the other run.
Independence ==
    /\ pc = "done" => report = AloneReport(Locals)
    /\ other.pc = "done" => other.report = AloneReport(other)
    /\ OwnOnly(Locals, me)
    /\ OwnOnly(other, Peer(me))

\* C15 witness: a run has returned its report, with a TLS reset, while the
\* other run, begun before, is still waiting for its HTTP probe; the two runs
\* have different addresses and different TCP results.
IndependenceWitness ==
    /\ pc = "done"
    /\ me = "b"
    /\ DOMAIN report.connectivity = {MaxAddr}
    /\ Get(report.connectivity[MaxAddr], "tcp_80", TRUE) = FALSE
    /\ Get(report.connectivity[MaxAddr], "tls", "None") = TLS_RESET
    /\ other.pc = "await_http"
    /\ other.all_ips = {1}
    /\ other.report.connectivity[1]["tcp_443"] = FALSE
====
